---- MODULE Spec2Model ----
\* A model of riscemu's memory/execution substrate: the Executable image and
\* its loader (Executable.py), the bounds- and permission-checked loaded
\* sections, the CSR bank (priv/CSR.py) and the privileged instructions
\* (priv/PrivRV32I.py).
EXTENDS Integers, Sequences, FiniteSets, TLC

VARIABLES
    heap,       \* the bytearray objects: heap[id] is the bytes of object id
    exe,        \* the Executable image
    loads,      \* the outcome of every LoadedExecutable(exe, base) call so far
    ret,        \* what the last operation returned or raised
    regs,       \* CSR.regs: address -> value (a value is the set of its 1-bits)
    listeners,  \* CSR.listeners: address -> the listener installed there
    calls,      \* the listener invocations made by the last operation
    mode,       \* PrivCPU.mode
    pc,         \* PrivCPU.pc
    sets,       \* the number of set_mstatus calls made so far
    cpu_regs,   \* PrivCPU.regs: the integer registers, name -> value
    elf         \* the ElfExecutable under construction

vars == <<heap, exe, loads, ret, regs, listeners, calls, mode, pc, sets,
          cpu_regs, elf>>
memvars == <<heap, exe, loads, elf>>
cpuvars == <<regs, listeners, calls, mode, pc, sets, cpu_regs>>

----------------------------------------------------------------------------
\* Bounds of the model.

MaxChunks == 2      \* chunks (or instructions) one section accumulates
MaxLoads == 2       \* loads of the image
MaxOffset == 3      \* largest offset a read or write is tried at
MaxSize == 2        \* largest size a read or write is tried with
MaxCsrVal == 2      \* largest value written to a CSR
MaxVal == 4         \* largest value given to set_mstatus
MaxSets == 1        \* set_mstatus calls in one run
MaxSecs == 3        \* sections one ELF file holds
MaxSecBase == 2     \* largest address an ELF section is placed at
MaxSecSize == 2     \* largest size of an ELF section
MaxPc == 12         \* largest pc an instruction is executed at

\* Python's None (Executable.stack_pref is Optional[int]).
None == -1

----------------------------------------------------------------------------
\* Sequence helpers.

Max(a, b) == IF a >= b THEN a ELSE b
Min(a, b) == IF a <= b THEN a ELSE b

\* s[lo:hi] of Python for 0 <= lo and 0 <= hi: both ends are clamped to len(s).
Slice(s, lo, hi) ==
    LET l == Min(lo, Len(s))
        h == Min(hi, Len(s))
    IN  IF h <= l THEN <<>> ELSE SubSeq(s, l + 1, h)

\* bytearray(n): n zero bytes.
bytearray(n) == [i \in 1..n |-> 0]

----------------------------------------------------------------------------
\* MemoryFlags, MemorySection, InstructionMemorySection, Executable.

MemoryFlags(read_only, executable) ==
    [read_only |-> read_only, executable |-> executable]

\* An add that sets size to the length of the chunk last appended.
add_SizeOfLast(sec, id, data) ==
    [sec EXCEPT !.content = Append(@, id), !.size = Len(data)]

\* MemorySection.add: the chunk object itself (not a copy) is appended.
add(sec, id, data) ==
    [sec EXCEPT !.content = Append(@, id), !.size = @ + Len(data)]

\* InstructionMemorySection.add_insn
add_insn(sec, insn) ==
    [sec EXCEPT !.content = Append(@, insn), !.size = @ + 1]

\* content += b for every b of rest, in place on the object first.
RECURSIVE ExtendInPlace(_, _, _)
ExtendInPlace(h, first, rest) ==
    IF rest = <<>> THEN h
    ELSE ExtendInPlace([h EXCEPT ![first] = h[first] \o h[Head(rest)]],
                       first, Tail(rest))

\* MemorySection.continuous_content / InstructionMemorySection.continuous_content
\* on heap h: the heap afterwards and the content returned. A byte section
\* returns a reference to a bytearray object (buf), an instruction section a
\* new list of LoadedInstructions bound to parent.
continuous_content(sec, parent, h) ==
    IF sec.kind = "insns"
    THEN [h |-> h,
          content |-> [kind |-> "insns",
                       list |-> [i \in 1..Len(sec.content) |->
                                   [name |-> sec.content[i].instruction,
                                    args |-> sec.content[i].args,
                                    bin |-> parent]]]]
    ELSE IF sec.size = 0
    THEN [h |-> Append(h, bytearray(0)),
          content |-> [kind |-> "bytes", buf |-> Len(h) + 1]]
    ELSE [h |-> ExtendInPlace(h, sec.content[1], Tail(sec.content)),
          content |-> [kind |-> "bytes", buf |-> sec.content[1]]]

----------------------------------------------------------------------------
\* The loader: LoadedExecutable.__init__.

\* The alignment boundary sections are placed at.
ALIGN == 4

\* helpers.align_addr: addr rounded up to the next alignment boundary.
align_addr(addr) == addr + ((ALIGN - (addr % ALIGN)) % ALIGN)

LoadedMemorySection(name, base, size, content, flags, owner) ==
    [name |-> name, base |-> base, size |-> size, content |-> content,
     flags |-> flags, owner |-> owner]

\* The stack section and stack_heap (lines 255-267); the stack's bytearray is
\* a new object of the heap.
LoadStack(e, base_addr, h) ==
    IF e.stack_pref # None
    THEN [h |-> Append(h, bytearray(e.stack_pref)),
          sections |-> <<LoadedMemorySection(
                            "stack", base_addr, e.stack_pref,
                            [kind |-> "bytes", buf |-> Len(h) + 1],
                            MemoryFlags(FALSE, FALSE), e.name)>>,
          stack_heap |-> <<base_addr, base_addr + e.stack_pref>>]
    ELSE [h |-> h, sections |-> <<>>, stack_heap |-> <<0, 0>>]

\* Where the address cursor starts (line 269).
FirstSectionAddr(e, base_addr) == base_addr

\* The loop over exe.sections.values() (lines 270-281), from section i on,
\* with st = [h, sections, sections_by_name, curr].
RECURSIVE LoadSections(_, _, _, _)
LoadSections(e, parent, i, st) ==
    IF i > Len(e.sections) THEN st
    ELSE LET sec == e.sections[i]
             cc == continuous_content(sec, parent, st.h)
             loaded_sec == LoadedMemorySection(sec.name, st.curr, sec.size,
                                               cc.content, sec.flags, e.name)
         IN  LoadSections(e, parent, i + 1,
                 [h |-> cc.h,
                  sections |-> Append(st.sections, loaded_sec),
                  sections_by_name |->
                      (loaded_sec.name :> loaded_sec) @@ st.sections_by_name,
                  curr |-> align_addr(loaded_sec.size + st.curr)])

\* Symbol resolution (lines 283-285): the symbols that name a section that is
\* not in sections_by_name make ASSERT_IN (or the lookup after it) raise.
UnknownSymbols(e, by_name) ==
    {n \in DOMAIN e.symbols : e.symbols[n][1] \notin DOMAIN by_name}

\* A resolution that drops the offset of the symbol.
ResolveSymbols_NoOffset(e, by_name) ==
    [n \in DOMAIN e.symbols |-> by_name[e.symbols[n][1]].base]

ResolveSymbols(e, by_name) ==
    [n \in DOMAIN e.symbols |-> by_name[e.symbols[n][1]].base + e.symbols[n][2]]

\* LoadedExecutable(exe, base_addr) on heap h: the heap afterwards, the
\* exception raised ("none" when the object is constructed) and the object.
LoadedExecutable(e, base_addr, parent, h) ==
    LET stk == LoadStack(e, base_addr, h)
        st == LoadSections(e, parent, 1,
                  [h |-> stk.h, sections |-> stk.sections,
                   sections_by_name |-> <<>>,
                   curr |-> FirstSectionAddr(e, base_addr)])
        by_name == st.sections_by_name
    IN  IF UnknownSymbols(e, by_name) # {}
        THEN [h |-> st.h, raised |-> "AssertionError", le |-> <<>>]
        ELSE IF e.run_ptr[1] \notin DOMAIN by_name
        THEN [h |-> st.h, raised |-> "KeyError", le |-> <<>>]
        ELSE [h |-> st.h, raised |-> "none",
              le |-> [name |-> e.name,
                      base_addr |-> base_addr,
                      sections |-> st.sections,
                      sections_by_name |-> by_name,
                      symbols |-> ResolveSymbols(e, by_name),
                      stack_heap |-> stk.stack_heap,
                      size |-> st.curr - base_addr,
                      run_ptr |-> by_name[e.run_ptr[1]].base + e.run_ptr[2]]]

----------------------------------------------------------------------------
\* LoadedMemorySection: bounds- and permission-checked access.

\* The sequence sec.content refers to.
ContentOf(sec, h) ==
    IF sec.content.kind = "bytes" THEN h[sec.content.buf] ELSE sec.content.list

\* A read that may end at the last byte of the section.
ReadLimitExceeded_UpToEnd(sec, offset, size) == offset + size > sec.size

\* The bound a read must stay below (line 145).
ReadLimitExceeded(sec, offset, size) == offset + size >= sec.size

\* LoadedMemorySection.read
read(sec, offset, size, h) ==
    IF offset < 0
    THEN [raised |-> "MemoryAccessException", msg |-> "Invalid offset",
          value |-> <<>>]
    ELSE IF ReadLimitExceeded(sec, offset, size)
    THEN [raised |-> "MemoryAccessException",
          msg |-> "Outside section boundary", value |-> <<>>]
    ELSE [raised |-> "none", msg |-> "",
          value |-> Slice(ContentOf(sec, h), offset, offset + size)]

\* The loop of write (lines 171-172) on the sequence c: the elements stored
\* before data[i] or content[offset + i] is out of range.
WriteLoop(c, offset, size, data) ==
    LET n == Min(Max(size, 0), Min(Len(data), Max(Len(c) - offset, 0)))
    IN  [done |-> n,
         content |-> [p \in 1..Len(c) |->
                        IF p > offset /\ p <= offset + n
                        THEN data[p - offset] ELSE c[p]]]

\* A permission check that looks at the wrong flag.
WriteDenied_Executable(sec) == sec.flags.executable

\* The permission check of write (lines 162-163).
WriteDenied(sec) == sec.flags.read_only

\* LoadedMemorySection.write on content sequence c: what is raised and the
\* content afterwards.
write(sec, offset, size, data, c) ==
    IF WriteDenied(sec)
    THEN [raised |-> "MemoryAccessException",
          msg |-> "Section not writeable", content |-> c]
    ELSE IF offset < 0
    THEN [raised |-> "MemoryAccessException", msg |-> "Invalid offset",
          content |-> c]
    ELSE IF offset >= sec.size
    THEN [raised |-> "MemoryAccessException",
          msg |-> "Outside section boundary", content |-> c]
    ELSE LET w == WriteLoop(c, offset, size, data)
         IN  IF w.done < size
             THEN [raised |-> "IndexError", msg |-> "", content |-> w.content]
             ELSE [raised |-> "none", msg |-> "", content |-> w.content]

----------------------------------------------------------------------------
\* Integers of the CSR bank. A Python int v >= 0 is held as the set of the
\* positions of its 1-bits, so that mstatus (32 bits and more) has its full
\* width.

RECURSIVE BitsFrom(_, _)
BitsFrom(n, k) ==
    IF n = 0 THEN {}
    ELSE (IF n % 2 = 1 THEN {k} ELSE {}) \cup BitsFrom(n \div 2, k + 1)

\* The bits of the small integer n, and the small integer of the bits S.
Bits(n) == BitsFrom(n, 0)

RECURSIVE Num(_)
Num(S) ==
    IF S = {} THEN 0
    ELSE LET b == CHOOSE x \in S : TRUE
         IN  2 ^ b + Num(S \ {b})

Shl(S, k) == {b + k : b \in S}                   \* S << k
Shr(S, k) == {b - k : b \in {x \in S : x >= k}}  \* S >> k
BitAnd(S, T) == S \cap T                         \* S & T
BitOr(S, T) == S \cup T                          \* S | T
BitAndNot(S, T) == S \ T                         \* S & (~T)

----------------------------------------------------------------------------
\* priv/CSR.py

MSTATUS_OFFSETS ==
    [uie |-> 0, sie |-> 1, mie |-> 3, upie |-> 4, spie |-> 5, mpie |-> 7,
     spp |-> 8, mpp |-> 11, fs |-> 13, xs |-> 15, mpriv |-> 17, sum |-> 18,
     mxr |-> 19, tvm |-> 20, tw |-> 21, tsr |-> 22, sd |-> 31]

MSTATUS_LEN_2 == {"mpp", "fs", "xs"}

name_to_addr ==
    [mstatus |-> 768, misa |-> 769, mie |-> 772, mtvec |-> 773, mepc |-> 833,
     mcause |-> 834, mtval |-> 835, mip |-> 836, mvendorid |-> 3857,
     marchid |-> 3858, mimpid |-> 3859, mhartid |-> 3860, time |-> 3073,
     timeh |-> 3201, halt |-> 1929]

\* The addresses the model keeps a register and a listener slot for.
Addrs == {0} \cup {name_to_addr[n] : n \in DOMAIN name_to_addr}

\* An address argument is a mnemonic (str) or a number (int).
StrArg(n) == [kind |-> "str", v |-> n]
IntArg(a) == [kind |-> "int", v |-> a]

\* CSR.__init__: every register reads 0, every listener is the no-op.
CsrInit ==
    /\ regs = [a \in Addrs |-> {}]
    /\ listeners = [a \in Addrs |-> "noop"]
    /\ calls = <<>>

\* The translation of the address argument at the head of set, get and
\* set_listener: an unknown mnemonic is reported and the table lookup that
\* follows raises KeyError.
Resolve(a) ==
    IF a.kind = "str"
    THEN IF a.v \in DOMAIN name_to_addr
         THEN [raised |-> "none", printed |-> FALSE, addr |-> name_to_addr[a.v]]
         ELSE [raised |-> "KeyError", printed |-> TRUE, addr |-> 0]
    ELSE [raised |-> "none", printed |-> FALSE, addr |-> a.v]

\* A CSR bank value: c = [regs, listeners, calls].
Csr == [regs |-> regs, listeners |-> listeners, calls |-> <<>>]

\* A set that stores before it notifies.
set_at_StoreFirst(c, addr, val) ==
    LET stored == [c EXCEPT !.regs[addr] = val]
    IN  [stored EXCEPT !.calls = Append(@,
            [slot |-> addr, listener |-> stored.listeners[addr],
             old |-> stored.regs[addr], new |-> val,
             seen |-> stored.regs[addr]])]

\* Lines 75-76 of CSR.set: the listener of addr is called with (old, new)
\* while regs[addr] is still the old value (seen), then the value is stored.
set_at(c, addr, val) ==
    LET notified == [c EXCEPT !.calls = Append(@,
            [slot |-> addr, listener |-> c.listeners[addr],
             old |-> c.regs[addr], new |-> val, seen |-> c.regs[addr]])]
    IN  [notified EXCEPT !.regs[addr] = val]

\* CSR.set
set(c, a, val) ==
    LET r == Resolve(a)
    IN  IF r.raised # "none" THEN [raised |-> r.raised, c |-> c]
        ELSE [raised |-> "none", c |-> set_at(c, r.addr, val)]

\* CSR.get
get(c, a) ==
    LET r == Resolve(a)
    IN  IF r.raised # "none" THEN [raised |-> r.raised, value |-> {}]
        ELSE [raised |-> "none", value |-> c.regs[r.addr]]

\* CSR.set_listener
set_listener(c, a, listener) ==
    LET r == Resolve(a)
    IN  IF r.raised # "none" THEN [raised |-> r.raised, c |-> c]
        ELSE [raised |-> "none", c |-> [c EXCEPT !.listeners[r.addr] = listener]]

\* size = 2 if name in MSTATUS_LEN_2 else 1
FieldSize(name) == IF name \in MSTATUS_LEN_2 THEN 2 ELSE 1

\* mask = (2**size - 1) << off
FieldMask(name) == Shl(Bits(2 ^ FieldSize(name) - 1), MSTATUS_OFFSETS[name])

\* A set_mstatus that does not erase the field before it ORs the value in.
set_mstatus_NoErase(c, name, val) ==
    LET off == MSTATUS_OFFSETS[name]
        old_val == get(c, StrArg("mstatus")).value
        new_val == BitOr(old_val, Shl(Bits(val), off))
    IN  set(c, StrArg("mstatus"), new_val).c

\* A set_mstatus that erases one bit more than the field has.
set_mstatus_WideMask(c, name, val) ==
    LET off == MSTATUS_OFFSETS[name]
        mask == Shl(Bits(2 ^ (FieldSize(name) + 1) - 1), off)
        old_val == get(c, StrArg("mstatus")).value
        erased == BitAndNot(old_val, mask)
        new_val == BitOr(erased, Shl(Bits(val), off))
    IN  set(c, StrArg("mstatus"), new_val).c

\* CSR.set_mstatus
set_mstatus(c, name, val) ==
    LET off == MSTATUS_OFFSETS[name]
        mask == FieldMask(name)
        old_val == get(c, StrArg("mstatus")).value
        erased == BitAndNot(old_val, mask)
        new_val == BitOr(erased, Shl(Bits(val), off))
    IN  set(c, StrArg("mstatus"), new_val).c

\* CSR.get_mstatus
get_mstatus(c, name) ==
    Num(Shr(BitAnd(get(c, StrArg("mstatus")).value, FieldMask(name)),
            MSTATUS_OFFSETS[name]))

----------------------------------------------------------------------------
\* priv/PrivRV32I.py

\* privmodes.PrivModes
PrivModes == [USER |-> 0, SUPER |-> 1, MACHINE |-> 3]
PrivModeValues == {PrivModes.USER, PrivModes.SUPER, PrivModes.MACHINE}

\* An mret that is refused in user mode only.
MretIllegal_UserOnly(m) == m = PrivModes.USER

\* The privilege check of mret (line 46).
MretIllegal(m) == m # PrivModes.MACHINE

\* An mret that restores the mode and pc but leaves mie as it is.
instruction_mret_KeepMie(s) ==
    IF MretIllegal(s.mode)
    THEN [raised |-> "IllegalInstructionTrap", s |-> s]
    ELSE LET mpp == get_mstatus(s.c, "mpp")
             mepc == get(s.c, StrArg("mepc")).value
         IN  IF mpp \notin PrivModeValues
             THEN [raised |-> "ValueError", s |-> s]
             ELSE [raised |-> "none",
                   s |-> [c |-> s.c, mode |-> mpp, pc |-> Num(mepc)]]

\* PrivRV32I.instruction_mret on the CPU state s = [c, mode, pc]: the
\* exception raised, if any, and the state it leaves.
instruction_mret(s) ==
    IF MretIllegal(s.mode)
    THEN [raised |-> "IllegalInstructionTrap", s |-> s]
    ELSE LET mpie == get_mstatus(s.c, "mpie")
             c1 == set_mstatus(s.c, "mie", mpie)
             mpp == get_mstatus(c1, "mpp")
             mepc == get(c1, StrArg("mepc")).value
         IN  IF mpp \notin PrivModeValues
             THEN [raised |-> "ValueError", s |-> [s EXCEPT !.c = c1]]
             ELSE [raised |-> "none",
                   s |-> [c |-> c1, mode |-> mpp, pc |-> Num(mepc)]]

\* A scall that reports the user-mode cause from supervisor mode too.
instruction_scall_SuperAsUser(m) ==
    IF m = PrivModes.USER \/ m = PrivModes.SUPER
    THEN [raised |-> "CpuTrap", args |-> <<0, 8>>]
    ELSE IF m = PrivModes.MACHINE THEN [raised |-> "CpuTrap", args |-> <<0, 11>>]
    ELSE [raised |-> "none", args |-> <<>>]

\* PrivRV32I.instruction_scall in mode m: CpuTrap(0, code), or a normal
\* return when no branch matches.
instruction_scall(m) ==
    IF m = PrivModes.USER THEN [raised |-> "CpuTrap", args |-> <<0, 8>>]
    ELSE IF m = PrivModes.SUPER THEN [raised |-> "CpuTrap", args |-> <<0, 9>>]
    ELSE IF m = PrivModes.MACHINE THEN [raised |-> "CpuTrap", args |-> <<0, 11>>]
    ELSE [raised |-> "none", args |-> <<>>]

----------------------------------------------------------------------------
\* priv/ElfLoader.py

\* The names of the ELF sections the loader extracts.
INCLUDE_SEC == {".text", ".stack", ".bss", ".sdata", ".sbss"}

\* ElfExecutable._lms_from_elf_sec: the section record made of an ELF section
\* with the given name, sh_addr, data_size and data.
lms_from_elf_sec(name, sh_addr, data_size, data, owner) ==
    LET is_code == name \in {".text"}
    IN  LoadedMemorySection(name, sh_addr, data_size, data,
                            MemoryFlags(is_code, is_code), owner)

\* ElfLoadedMemorySection.end
end(sec) == sec.size + sec.base

\* A test that compares sec.base with new_sec.base where new_sec.end is
\* meant.
Apart_BaseOnly(sec, new_sec) ==
    \/ sec.base < end(sec) /\ end(sec) <= new_sec.base
    \/ end(sec) > sec.base /\ sec.base >= new_sec.base

\* The test of add_sec (line 75) that lets the loop continue: sec lies
\* wholly below or wholly above new_sec.
Apart(sec, new_sec) ==
    \/ sec.base < end(sec) /\ end(sec) <= new_sec.base
    \/ end(sec) > sec.base /\ sec.base >= end(new_sec)

\* ElfExecutable.add_sec on the executable e = [sections, sections_by_name]:
\* RuntimeError at the first section the test fails for, else new_sec is
\* appended and registered under its name.
add_sec(e, new_sec) ==
    IF \E i \in 1..Len(e.sections) : ~Apart(e.sections[i], new_sec)
    THEN [raised |-> "RuntimeError", e |-> e]
    ELSE [raised |-> "none",
          e |-> [sections |-> Append(e.sections, new_sec),
                 sections_by_name |->
                     (new_sec.name :> new_sec) @@ e.sections_by_name]]

----------------------------------------------------------------------------
\* LoadedInstruction, the register file and the instructions of PrivRV32I
\* that read their operands from a LoadedInstruction. L is the sequence of
\* loads: ins.bin is the index in L of the LoadedExecutable ins belongs to.

\* helpers.parse_numeric_argument on the literals the instructions of the
\* model hold: decimal and 0x-prefixed hexadecimal.
parse_numeric_argument(arg) ==
    CASE arg = "-8" -> -8
      [] arg = "8" -> 8
      [] arg = "16" -> 16
      [] arg = "0x300" -> 768
      [] arg = "0x341" -> 833

\* LoadedInstruction.get_reg, for num < len(args).
get_reg(ins, num) == ins.args[num + 1]

\* LoadedInstruction.get_imm, for num < len(args): a symbol of the owning
\* executable by its resolved address, anything else as a numeric literal.
get_imm(ins, num, L) ==
    LET arg == ins.args[num + 1]
        symbols == L[ins.bin].le.symbols
    IN  IF arg \in DOMAIN symbols THEN symbols[arg]
        ELSE parse_numeric_argument(arg)

\* Registers.get
reg_get(R, reg) == R[reg]

\* Registers.set: the zero register is hard-wired.
reg_set(R, reg, val) == IF reg = "zero" THEN R ELSE [R EXCEPT ![reg] = val]

\* RV32I.get_reg_content: the value of the register argument ind.
get_reg_content(R, ins, ind) ==
    IF get_reg(ins, ind) = "zero" THEN 0 ELSE reg_get(R, get_reg(ins, ind))

\* helpers.to_unsigned for 32 bits: v + 2^32 for v < 0, as the pair
\* [hi, lo] of value hi * 2^31 + lo.
to_unsigned(v) ==
    IF v < 0 THEN [hi |-> 1, lo |-> (v + 2147483647) + 1]
    ELSE [hi |-> 0, lo |-> v]

\* a < b on two results of to_unsigned.
ULess(a, b) == a.hi < b.hi \/ (a.hi = b.hi /\ a.lo < b.lo)

\* RV32I.parse_rs_rs_imm(ins, signed): the contents of the two register
\* arguments (converted by to_unsigned unless signed) and the immediate.
parse_rs_rs_imm(R, ins, signed, L) ==
    LET rs1 == get_reg_content(R, ins, 0)
        rs2 == get_reg_content(R, ins, 1)
    IN  IF signed THEN <<rs1, rs2, get_imm(ins, 2, L)>>
        ELSE <<to_unsigned(rs1), to_unsigned(rs2), get_imm(ins, 2, L)>>

\* PrivRV32I.parse_crs_ins
parse_crs_ins(R, ins, L) ==
    <<get_reg(ins, 0), get_reg_content(R, ins, 1), get_imm(ins, 2, L)>>

\* An instruction works on s = [c, pc, regs]: the CSR bank, the program
\* counter and the integer registers; it gives the exception raised, if any,
\* and the state it leaves.

\* PrivRV32I.instruction_csrrw: with rd other than zero the old value is read
\* by subscripting the CSR bank (self.cpu.csr[ind]), which CSR does not
\* support, so TypeError is raised before anything is written.
instruction_csrrw(s, ins, L) ==
    LET p == parse_crs_ins(s.regs, ins, L)
        rd == p[1]
        rs == p[2]
        ind == p[3]
    IN  IF rd # "zero"
        THEN [raised |-> "TypeError", s |-> s]
        ELSE LET r == set(s.c, IntArg(ind), Bits(rs))
             IN  [raised |-> r.raised, s |-> [s EXCEPT !.c = r.c]]

\* PrivRV32I.instruction_beq
instruction_beq(s, ins, L) ==
    LET p == parse_rs_rs_imm(s.regs, ins, TRUE, L)
    IN  [raised |-> "none",
         s |-> IF p[1] = p[2] THEN [s EXCEPT !.pc = @ + p[3] - 4] ELSE s]

\* PrivRV32I.instruction_bne
instruction_bne(s, ins, L) ==
    LET p == parse_rs_rs_imm(s.regs, ins, TRUE, L)
    IN  [raised |-> "none",
         s |-> IF p[1] # p[2] THEN [s EXCEPT !.pc = @ + p[3] - 4] ELSE s]

\* A blt that corrects the target by 4 as the other branches do.
instruction_blt_Minus4(s, ins, L) ==
    LET p == parse_rs_rs_imm(s.regs, ins, TRUE, L)
    IN  [raised |-> "none",
         s |-> IF p[1] < p[2] THEN [s EXCEPT !.pc = @ + p[3] - 4] ELSE s]

\* PrivRV32I.instruction_blt: pc += dst, without the - 4.
instruction_blt(s, ins, L) ==
    LET p == parse_rs_rs_imm(s.regs, ins, TRUE, L)
    IN  [raised |-> "none",
         s |-> IF p[1] < p[2] THEN [s EXCEPT !.pc = @ + p[3]] ELSE s]

\* PrivRV32I.instruction_bge
instruction_bge(s, ins, L) ==
    LET p == parse_rs_rs_imm(s.regs, ins, TRUE, L)
    IN  [raised |-> "none",
         s |-> IF p[1] >= p[2] THEN [s EXCEPT !.pc = @ + p[3] - 4] ELSE s]

\* PrivRV32I.instruction_bltu
instruction_bltu(s, ins, L) ==
    LET p == parse_rs_rs_imm(s.regs, ins, FALSE, L)
    IN  [raised |-> "none",
         s |-> IF ULess(p[1], p[2]) THEN [s EXCEPT !.pc = @ + p[3] - 4]
               ELSE s]

\* PrivRV32I.instruction_bgeu
instruction_bgeu(s, ins, L) ==
    LET p == parse_rs_rs_imm(s.regs, ins, FALSE, L)
    IN  [raised |-> "none",
         s |-> IF ~ULess(p[1], p[2]) THEN [s EXCEPT !.pc = @ + p[3] - 4]
               ELSE s]

\* A jal that sets pc to the target instead of adding to it.
instruction_jal_Absolute(s, ins, L) ==
    LET reg == get_reg(ins, 0)
        addr == get_imm(ins, 1, L)
    IN  [raised |-> "none",
         s |-> [s EXCEPT !.regs = reg_set(s.regs, reg, s.pc),
                         !.pc = addr - 4]]

\* PrivRV32I.instruction_jal: self.regs.set(reg, self.pc), then
\* self.pc += addr - 4.
instruction_jal(s, ins, L) ==
    LET reg == get_reg(ins, 0)
        addr == get_imm(ins, 1, L)
    IN  [raised |-> "none",
         s |-> [s EXCEPT !.regs = reg_set(s.regs, reg, s.pc),
                         !.pc = s.pc + addr - 4]]

\* The dispatch on the instruction's name (instruction_<name>).
run_instruction(s, ins, L) ==
    CASE ins.name = "csrrw" -> instruction_csrrw(s, ins, L)
      [] ins.name = "beq" -> instruction_beq(s, ins, L)
      [] ins.name = "bne" -> instruction_bne(s, ins, L)
      [] ins.name = "blt" -> instruction_blt(s, ins, L)
      [] ins.name = "bge" -> instruction_bge(s, ins, L)
      [] ins.name = "bltu" -> instruction_bltu(s, ins, L)
      [] ins.name = "bgeu" -> instruction_bgeu(s, ins, L)
      [] ins.name = "jal" -> instruction_jal(s, ins, L)

----------------------------------------------------------------------------
\* The CPU a program is loaded for, as constructed.

\* The integer registers the instructions of the model name.
RegNames == {"zero", "ra", "a0", "a1"}

\* Registers.__init__: every register reads 0.
RegsInit == [r \in RegNames |-> 0]

\* ElfExecutable.__init__ before _read_elf: no section yet.
ElfInit == [sections |-> <<>>, sections_by_name |-> <<>>]

CpuInit ==
    /\ CsrInit
    /\ mode = PrivModes.MACHINE
    /\ pc = 0
    /\ sets = 0
    /\ cpu_regs = RegsInit

----------------------------------------------------------------------------
\* The image under construction and its loads.

Text == [name |-> ".text", flags |-> MemoryFlags(TRUE, TRUE), size |-> 0,
         kind |-> "insns", content |-> <<>>]
Data == [name |-> ".data", flags |-> MemoryFlags(FALSE, FALSE), size |-> 0,
         kind |-> "bytes", content |-> <<>>]

\* The section dictionaries (in insertion order) the front-end starts from.
Layouts == {<<Text>>, <<Text, Data>>, <<Data, Text>>}
StackPrefs == {None, 0, 3}
SymTabs == {<<>>,
            "main" :> <<".text", 1>>,
            ("main" :> <<".text", 0>>) @@ ("var" :> <<".data", 2>>),
            "sp" :> <<"stack", 0>>}
RunPtrs == {<<".text", 0>>, <<".data", 1>>}
Bases == {0, 6}
Chunks == {<<1>>, <<2, 3>>}
Tokens == {[instruction |-> "nop", args |-> <<>>]}

Init ==
    /\ heap = <<>>
    /\ \E l \in Layouts, k \in StackPrefs, s \in SymTabs, r \in RunPtrs :
          exe = [name |-> "prog", run_ptr |-> r, sections |-> l,
                 symbols |-> s, stack_pref |-> k]
    /\ loads = <<>>
    /\ elf = ElfInit
    /\ ret = [op |-> "init"]
    /\ CpuInit

\* sec.add(data) with a new bytearray, while the front-end builds the image.
Add(i, data) ==
    /\ loads = <<>>
    /\ exe.sections[i].kind = "bytes"
    /\ Len(exe.sections[i].content) < MaxChunks
    /\ heap' = Append(heap, data)
    /\ exe' = [exe EXCEPT !.sections[i] = add(@, Len(heap) + 1, data)]
    /\ ret' = [op |-> "add", sec |-> i, data |-> data]
    /\ UNCHANGED <<loads, elf, cpuvars>>

\* sec.add_insn(insn)
AddInsn(i, insn) ==
    /\ loads = <<>>
    /\ exe.sections[i].kind = "insns"
    /\ Len(exe.sections[i].content) < MaxChunks
    /\ exe' = [exe EXCEPT !.sections[i] = add_insn(@, insn)]
    /\ ret' = [op |-> "add_insn", sec |-> i]
    /\ UNCHANGED <<heap, loads, elf, cpuvars>>

\* LoadedExecutable(exe, base_addr)
Load(base_addr) ==
    /\ Len(loads) < MaxLoads
    /\ LET r == LoadedExecutable(exe, base_addr, Len(loads) + 1, heap)
       IN  /\ heap' = r.h
           /\ loads' = Append(loads, [raised |-> r.raised, le |-> r.le])
           /\ ret' = [op |-> "load", base |-> base_addr, raised |-> r.raised]
    /\ UNCHANGED <<exe, elf, cpuvars>>

Next ==
    \/ \E i \in 1..Len(exe.sections), d \in Chunks : Add(i, d)
    \/ \E i \in 1..Len(exe.sections), t \in Tokens : AddInsn(i, t)
    \/ \E b \in Bases : Load(b)

Spec == Init /\ [][Next]_vars

----------------------------------------------------------------------------
\* Reads and writes on the sections of a loaded image.

Rodata == [name |-> ".rodata", flags |-> MemoryFlags(TRUE, FALSE), size |-> 0,
           kind |-> "bytes", content |-> <<>>]

\* sec.add(chunk) for every chunk, each a new bytearray of heap h.
RECURSIVE AddAll(_, _, _)
AddAll(sec, h, chunks) ==
    IF chunks = <<>> THEN [sec |-> sec, h |-> h]
    ELSE AddAll(add(sec, Len(h) + 1, Head(chunks)), Append(h, Head(chunks)),
                Tail(chunks))

\* The chunk sequences .data is built from.
MemDataChunks == {<<>>, <<<<1>>, <<2, 3>>>>}

\* An image of .data and .rodata, loaded once or twice.
InitMem ==
    /\ \E dc \in MemDataChunks, n \in {1, 2} :
          LET d == AddAll(Data, <<>>, dc)
              r == AddAll(Rodata, d.h, <<<<4, 5>>>>)
              e == [name |-> "prog", run_ptr |-> <<".data", 0>>,
                    sections |-> <<d.sec, r.sec>>,
                    symbols |-> <<>>, stack_pref |-> None]
              l1 == LoadedExecutable(e, 0, 1, r.h)
              l2 == LoadedExecutable(e, 16, 2, l1.h)
          IN  /\ exe = e
              /\ heap = IF n = 1 THEN l1.h ELSE l2.h
              /\ loads = IF n = 1
                         THEN <<[raised |-> l1.raised, le |-> l1.le]>>
                         ELSE <<[raised |-> l1.raised, le |-> l1.le],
                                [raised |-> l2.raised, le |-> l2.le]>>
    /\ elf = ElfInit
    /\ ret = [op |-> "init"]
    /\ CpuInit

\* The data a write of size bytes is given.
DataOf(size) == [i \in 1..size |-> 10 + i]

\* loads[k].le.sections[j].read(offset, size)
Read(k, j, offset, size) ==
    /\ loads[k].raised = "none"
    /\ LET sec == loads[k].le.sections[j]
           r == read(sec, offset, size, heap)
       IN  ret' = [op |-> "read", k |-> k, j |-> j, offset |-> offset,
                   size |-> size, raised |-> r.raised, msg |-> r.msg,
                   value |-> r.value]
    /\ UNCHANGED <<memvars, cpuvars>>

\* loads[k].le.sections[j].write(offset, size, data), on a byte section or a
\* read-only section.
Write(k, j, offset, size, data) ==
    /\ loads[k].raised = "none"
    /\ LET sec == loads[k].le.sections[j]
           w == write(sec, offset, size, data, ContentOf(sec, heap))
       IN  /\ sec.content.kind = "bytes" \/ sec.flags.read_only
           /\ heap' = IF sec.content.kind = "bytes"
                      THEN [heap EXCEPT ![sec.content.buf] = w.content]
                      ELSE heap
           /\ ret' = [op |-> "write", k |-> k, j |-> j, offset |-> offset,
                      size |-> size, data |-> data, raised |-> w.raised,
                      msg |-> w.msg, before |-> heap]
    /\ UNCHANGED <<exe, loads, elf, cpuvars>>

NextMem ==
    \/ \E k \in 1..Len(loads) :
         \E j \in 1..Len(loads[k].le.sections) :
           \E o \in -1..MaxOffset, n \in 0..MaxSize : Read(k, j, o, n)
    \/ \E k \in 1..Len(loads) :
         \E j \in 1..Len(loads[k].le.sections) :
           \E o \in -1..MaxOffset, n \in 0..MaxSize : Write(k, j, o, n, DataOf(n))

SpecMem == InitMem /\ [][NextMem]_vars

----------------------------------------------------------------------------
\* The CSR bank: set, get and set_listener.

\* No image is built or loaded while the CPU state is exercised.
MemIdle ==
    /\ heap = <<>>
    /\ exe = [name |-> "prog", run_ptr |-> <<".text", 0>>,
              sections |-> <<Text>>, symbols |-> <<>>, stack_pref |-> None]
    /\ loads = <<>>
    /\ elf = ElfInit

InitCSR ==
    /\ MemIdle
    /\ ret = [op |-> "init"]
    /\ CpuInit

CsrArgs == {StrArg("mstatus"), IntArg(768), StrArg("nosuch"), IntArg(0)}
Listeners == {"L1", "L2"}

\* csr.set(a, v)
Set(a, v) ==
    /\ LET r == set(Csr, a, v)
       IN  /\ regs' = r.c.regs
           /\ listeners' = r.c.listeners
           /\ calls' = r.c.calls
           /\ ret' = [op |-> "set", a |-> a, val |-> v, raised |-> r.raised,
                      before |-> regs]
    /\ UNCHANGED <<memvars, mode, pc, sets, cpu_regs>>

\* csr.get(a)
Get(a) ==
    /\ LET r == get(Csr, a)
       IN  ret' = [op |-> "get", a |-> a, raised |-> r.raised,
                   value |-> r.value]
    /\ calls' = <<>>
    /\ UNCHANGED <<memvars, regs, listeners, mode, pc, sets, cpu_regs>>

\* csr.set_listener(a, l)
SetListener(a, l) ==
    /\ LET r == set_listener(Csr, a, l)
       IN  /\ listeners' = r.c.listeners
           /\ ret' = [op |-> "set_listener", a |-> a, listener |-> l,
                      raised |-> r.raised]
    /\ calls' = <<>>
    /\ UNCHANGED <<memvars, regs, mode, pc, sets, cpu_regs>>

NextCSR ==
    \/ \E a \in CsrArgs, v \in 0..MaxCsrVal : Set(a, Bits(v))
    \/ \E a \in CsrArgs : Get(a)
    \/ \E a \in CsrArgs, l \in Listeners : SetListener(a, l)

SpecCSR == InitCSR /\ [][NextCSR]_vars

----------------------------------------------------------------------------
\* The mstatus fields and the privileged instructions mret and ecall.

\* The mstatus values a run starts from: 0, all 32 bits, and values with
\* mie, mpie and each mpp.
MstatusInits ==
    {{}, 0..31, {7}, {3, 11}, {7, 12}, {3, 7, 11, 12}, {0, 4, 8, 13, 15, 17}}
MepcInits == {0, 8}

InitPriv ==
    /\ MemIdle
    /\ ret = [op |-> "init"]
    /\ \E m \in MstatusInits, e \in MepcInits :
          regs = [a \in Addrs |->
                    IF a = name_to_addr.mstatus THEN m
                    ELSE IF a = name_to_addr.mepc THEN Bits(e) ELSE {}]
    /\ listeners = [a \in Addrs |-> "noop"]
    /\ calls = <<>>
    /\ mode \in PrivModeValues
    /\ pc = 4
    /\ sets = 0
    /\ cpu_regs = RegsInit

\* What an instruction or a call may change.
Before == [regs |-> regs, mode |-> mode, pc |-> pc]

\* csr.set_mstatus(name, v), and what csr.get_mstatus(name) returns right
\* after it (got).
SetMstatus(name, v) ==
    /\ sets < MaxSets
    /\ sets' = sets + 1
    /\ LET c == set_mstatus(Csr, name, v)
       IN  /\ regs' = c.regs
           /\ calls' = c.calls
           /\ ret' = [op |-> "set_mstatus", name |-> name, val |-> v,
                      got |-> get_mstatus(c, name), before |-> Before]
    /\ UNCHANGED <<memvars, listeners, mode, pc, cpu_regs>>

\* mret
Mret ==
    /\ LET r == instruction_mret([c |-> Csr, mode |-> mode, pc |-> pc])
       IN  /\ regs' = r.s.c.regs
           /\ calls' = r.s.c.calls
           /\ mode' = r.s.mode
           /\ pc' = r.s.pc
           /\ ret' = [op |-> "mret", raised |-> r.raised, before |-> Before]
    /\ UNCHANGED <<memvars, listeners, sets, cpu_regs>>

\* ecall
Scall ==
    /\ LET r == instruction_scall(mode)
       IN  ret' = [op |-> "scall", raised |-> r.raised, args |-> r.args,
                   before |-> Before]
    /\ calls' = <<>>
    /\ UNCHANGED <<memvars, regs, listeners, mode, pc, sets, cpu_regs>>

NextPriv ==
    \/ \E name \in DOMAIN MSTATUS_OFFSETS, v \in 0..MaxVal : SetMstatus(name, v)
    \/ Mret
    \/ Scall

SpecPriv == InitPriv /\ [][NextPriv]_vars

----------------------------------------------------------------------------
\* The sections of an ELF file, added one by one (_read_elf).

\* The sections of the ELF files of the model, among those the loader extracts.
ElfNames == INCLUDE_SEC \cap {".text", ".bss"}

InitElf ==
    /\ MemIdle
    /\ ret = [op |-> "init"]
    /\ CpuInit

\* self.add_sec(self._lms_from_elf_sec(sec, 'kernel')) for an ELF section
\* name at sh_addr with data_size bytes.
AddSec(name, sh_addr, data_size) ==
    /\ Len(elf.sections) < MaxSecs
    /\ LET new_sec == lms_from_elf_sec(name, sh_addr, data_size,
                                       DataOf(data_size), "kernel")
           r == add_sec(elf, new_sec)
       IN  /\ elf' = r.e
           /\ ret' = [op |-> "add_sec", sec |-> new_sec, raised |-> r.raised,
                      before |-> elf]
    /\ UNCHANGED <<heap, exe, loads, cpuvars>>

NextElf ==
    \E name \in ElfNames, a \in 0..MaxSecBase, n \in 0..MaxSecSize :
        AddSec(name, a, n)

SpecElf == InitElf /\ [][NextElf]_vars

----------------------------------------------------------------------------
\* The instructions of a loaded program, executed in any order.

\* self.add_insn(t) for every token t.
RECURSIVE AddInsns(_, _)
AddInsns(sec, tokens) ==
    IF tokens = <<>> THEN sec
    ELSE AddInsns(add_insn(sec, Head(tokens)), Tail(tokens))

Token(name, args) == [instruction |-> name, args |-> args]

\* The program: csrrw with and without a destination, every branch on the
\* same registers and immediate, and jal to a literal and to a symbol.
Program ==
    <<Token("csrrw", <<"a0", "ra", "0x300">>),
      Token("csrrw", <<"a0", "a0", "0x341">>),
      Token("csrrw", <<"zero", "a0", "0x300">>),
      Token("beq", <<"a0", "a1", "8">>),
      Token("bne", <<"a0", "a1", "8">>),
      Token("blt", <<"a0", "a1", "8">>),
      Token("bge", <<"a0", "a1", "8">>),
      Token("bltu", <<"a0", "a1", "8">>),
      Token("bgeu", <<"a0", "a1", "8">>),
      Token("beq", <<"zero", "a1", "main">>),
      Token("blt", <<"a1", "a0", "-8">>),
      Token("jal", <<"ra", "16">>),
      Token("jal", <<"a0", "main">>)>>

\* The program loaded at 8 with the symbol main at .text + 4, and a CPU
\* whose registers hold the values earlier instructions left.
InitInsn ==
    /\ LET e == [name |-> "prog", run_ptr |-> <<".text", 0>>,
                 sections |-> <<AddInsns(Text, Program)>>,
                 symbols |-> "main" :> <<".text", 4>>, stack_pref |-> None]
           l == LoadedExecutable(e, 8, 1, <<>>)
       IN  /\ exe = e
           /\ heap = l.h
           /\ loads = <<[raised |-> l.raised, le |-> l.le]>>
    /\ elf = ElfInit
    /\ ret = [op |-> "init"]
    /\ \E m \in {{}, {3}} :
          regs = [a \in Addrs |-> IF a = name_to_addr.mstatus THEN m ELSE {}]
    /\ listeners = [a \in Addrs |-> "noop"]
    /\ calls = <<>>
    /\ mode = PrivModes.MACHINE
    /\ pc \in {0, 8}
    /\ sets = 0
    /\ \E x \in {0, 2}, y \in {-1, 0, 2} :
          cpu_regs = [RegsInit EXCEPT !["a0"] = x, !["a1"] = y]

\* The instructions of the loaded .text section.
Instructions == loads[1].le.sections_by_name[".text"].content.list

\* What an instruction may change.
BeforeInsn == [regs |-> regs, pc |-> pc, cpu_regs |-> cpu_regs]

\* The CPU executes instruction i of the program while pc is in range.
Exec(i) ==
    /\ pc \in 0..MaxPc
    /\ LET ins == Instructions[i]
           r == run_instruction([c |-> Csr, pc |-> pc, regs |-> cpu_regs],
                                ins, loads)
       IN  /\ regs' = r.s.c.regs
           /\ calls' = r.s.c.calls
           /\ pc' = r.s.pc
           /\ cpu_regs' = r.s.regs
           /\ ret' = [op |-> "exec", ins |-> ins, raised |-> r.raised,
                      before |-> BeforeInsn]
    /\ UNCHANGED <<memvars, listeners, mode, sets>>

NextInsn == \E i \in 1..Len(Instructions) : Exec(i)

SpecInsn == InitInsn /\ [][NextInsn]_vars

----------------------------------------------------------------------------
\* Properties of the loader (checked under Spec).

\* The successful loads.
Loaded == {k \in 1..Len(loads) : loads[k].raised = "none"}

\* [a.base, a.base + a.size) and [b.base, b.base + b.size) share an address.
Overlap(a, b) ==
    \E x \in a.base..(a.base + a.size - 1) :
        x \in b.base..(b.base + b.size - 1)

\* The names of the sections a load of the image creates.
LoadedNames ==
    {exe.sections[i].name : i \in 1..Len(exe.sections)}
        \cup (IF exe.stack_pref # None THEN {"stack"} ELSE {})

\* C1: a load with stack_pref = K > 0 at base B puts the stack section at
\* [B, B+K), and no other loaded section overlaps the stack or another loaded
\* section.
C1_StackAndSectionsDisjoint ==
    \A k \in Loaded :
        exe.stack_pref # None /\ exe.stack_pref > 0 =>
            LET le == loads[k].le
                S == le.sections
            IN  /\ S[1].name = "stack"
                /\ S[1].base = le.base_addr
                /\ S[1].size = exe.stack_pref
                /\ \A i \in 2..Len(S) : \A j \in 1..Len(S) :
                       i # j => ~Overlap(S[i], S[j])

\* C2: after a load every symbol name -> (sec, off) is resolved to
\* sections_by_name[sec].base + off and so is run_ptr; a symbol or run pointer
\* that names a section that is not loaded makes the load fail.
C2_SymbolsResolved ==
    \A k \in 1..Len(loads) :
        /\ loads[k].raised = "none" =>
              LET le == loads[k].le
              IN  /\ DOMAIN le.symbols = DOMAIN exe.symbols
                  /\ \A n \in DOMAIN exe.symbols :
                        /\ \E i \in 1..Len(le.sections) :
                              le.sections[i] =
                                  le.sections_by_name[exe.symbols[n][1]]
                        /\ le.symbols[n] =
                              le.sections_by_name[exe.symbols[n][1]].base
                                  + exe.symbols[n][2]
                  /\ le.run_ptr =
                        le.sections_by_name[exe.run_ptr[1]].base
                            + exe.run_ptr[2]
        /\ (\/ \E n \in DOMAIN exe.symbols :
                  exe.symbols[n][1] \notin LoadedNames
            \/ exe.run_ptr[1] \notin LoadedNames)
              => loads[k].raised # "none"

\* C2 witness: a load resolved a symbol at a non-zero offset into a section
\* that is not the first one placed.
C2_Witness ==
    \E k \in Loaded :
        \E n \in DOMAIN exe.symbols :
            /\ exe.symbols[n][2] > 0
            /\ loads[k].le.sections_by_name[exe.symbols[n][1]].base
                  > loads[k].le.base_addr
            /\ loads[k].le.symbols[n] > loads[k].le.base_addr + exe.symbols[n][2]

----------------------------------------------------------------------------
\* Properties of LoadedMemorySection (checked under SpecMem).

\* The section the last read or write was made on.
RetSec == loads[ret.k].le.sections[ret.j]

\* C3: read(offset, size) on a section of size N returns
\* content[offset .. offset+size) exactly when offset >= 0 and
\* offset + size < N, and raises an out-of-bounds fault otherwise, also when
\* the read ends exactly at the last byte.
C3_ReadBounds ==
    ret.op = "read" =>
        IF ret.offset >= 0 /\ ret.offset + ret.size < RetSec.size
        THEN /\ ret.raised = "none"
             /\ ret.value = [i \in 1..ret.size |->
                               ContentOf(RetSec, heap)[ret.offset + i]]
        ELSE ret.raised = "MemoryAccessException"

\* C3 witness: a read of at least one byte at a positive offset returned.
C3_Witness ==
    /\ ret.op = "read" /\ ret.raised = "none"
    /\ ret.offset >= 1 /\ ret.size >= 1
    /\ Len(ret.value) = ret.size

\* C4: write on a writable section of size N raises an out-of-bounds fault
\* whenever offset < 0 or offset + size >= N, and otherwise copies exactly
\* size bytes of data into content[offset .. offset+size) and leaves every
\* other byte unchanged.
C4_WriteBoundsAsRead ==
    ret.op = "write" /\ ~RetSec.flags.read_only =>
        IF ret.offset < 0 \/ ret.offset + ret.size >= RetSec.size
        THEN ret.raised = "MemoryAccessException" /\ heap = ret.before
        ELSE /\ ret.raised = "none"
             /\ \A b \in 1..Len(heap) :
                   heap[b] = [p \in 1..Len(ret.before[b]) |->
                                IF /\ b = RetSec.content.buf
                                   /\ p > ret.offset
                                   /\ p <= ret.offset + ret.size
                                THEN ret.data[p - ret.offset]
                                ELSE ret.before[b][p]]

\* C5: a write to a read-only section fails with the read-only fault for
\* every offset and size, and changes no content.
C5_ReadOnlyWriteFails ==
    ret.op = "write" /\ RetSec.flags.read_only =>
        /\ ret.raised = "MemoryAccessException"
        /\ ret.msg = "Section not writeable"
        /\ heap = ret.before

\* C5 witness: a write inside the bounds of a read-only section was refused.
C5_Witness ==
    /\ ret.op = "write" /\ RetSec.flags.read_only
    /\ ret.offset >= 0 /\ ret.size >= 1
    /\ ret.offset + ret.size < RetSec.size
    /\ ret.raised = "MemoryAccessException"

----------------------------------------------------------------------------
\* Properties of mret, ecall and the mstatus fields (checked under SpecPriv).

\* C6: mret in USER or SUPERVISOR mode raises the illegal-instruction trap
\* and changes nothing: pc, the mode and every CSR are as before, and no CSR
\* write was made.
C6_MretGated ==
    ret.op = "mret" /\ ret.before.mode \in {PrivModes.USER, PrivModes.SUPER} =>
        /\ ret.raised = "IllegalInstructionTrap"
        /\ regs = ret.before.regs
        /\ mode = ret.before.mode
        /\ pc = ret.before.pc
        /\ calls = <<>>

\* C6 witness: mret was refused in SUPERVISOR mode in a state where it would
\* have set mie from mpie and moved pc to mepc.
C6_Witness ==
    /\ ret.op = "mret" /\ ret.raised = "IllegalInstructionTrap"
    /\ mode = PrivModes.SUPER
    /\ 7 \in regs[name_to_addr.mstatus] /\ 3 \notin regs[name_to_addr.mstatus]
    /\ Num(regs[name_to_addr.mepc]) # pc

\* C7: ecall always raises CpuTrap with reason 0 and cause 8 in USER, 9 in
\* SUPERVISOR and 11 in MACHINE mode; it never returns normally.
C7_EcallCause ==
    ret.op = "scall" =>
        /\ ret.raised = "CpuTrap"
        /\ ret.args = <<0, CASE mode = 0 -> 8 [] mode = 1 -> 9 [] mode = 3 -> 11
                             [] OTHER -> -1>>

\* C7 witness: an ecall from SUPERVISOR mode trapped.
C7_Witness ==
    ret.op = "scall" /\ mode = 1 /\ ret.raised = "CpuTrap"

\* The width and the bit positions of an mstatus field.
WidthOf(name) == IF name \in {"mpp", "fs", "xs"} THEN 2 ELSE 1
FieldBitsOf(name) ==
    {MSTATUS_OFFSETS[name] + i : i \in 0..(WidthOf(name) - 1)}

\* C8: get_mstatus(f) right after set_mstatus(f, v) returns v mod 2^w, w the
\* width of f, for every prior mstatus.
C8_MstatusRoundTrip ==
    ret.op = "set_mstatus" => ret.got = ret.val % (2 ^ WidthOf(ret.name))

\* C8 witness: a two-bit field that was not 0 was set to a value of more than
\* two bits.
C8_Witness ==
    /\ ret.op = "set_mstatus" /\ WidthOf(ret.name) = 2 /\ ret.val >= 4
    /\ FieldBitsOf(ret.name) \cap ret.before.regs[name_to_addr.mstatus] # {}

\* set_mstatus(ret.name, ret.val) left the bits outside the field, and so
\* every other field, as they were.
OtherFieldsKept ==
    /\ regs[name_to_addr.mstatus] \ FieldBitsOf(ret.name)
          = ret.before.regs[name_to_addr.mstatus] \ FieldBitsOf(ret.name)
    /\ \A g \in DOMAIN MSTATUS_OFFSETS \ {ret.name} :
          get_mstatus(Csr, g)
              = get_mstatus([regs |-> ret.before.regs,
                             listeners |-> listeners, calls |-> <<>>], g)

\* C9 as stated: set_mstatus(f, v) leaves every mstatus bit outside f
\* unchanged for every v, also for v >= 2^w.
C9_FieldIsolationAnyValue ==
    ret.op = "set_mstatus" => OtherFieldsKept

\* C9 amended: set_mstatus(f, v) leaves every mstatus bit outside f unchanged
\* for every v < 2^w, w the width of f.
C9_FieldIsolation ==
    ret.op = "set_mstatus" /\ ret.val < 2 ^ WidthOf(ret.name) => OtherFieldsKept

\* C9 witness: a field was changed by a value of its width while other
\* fields were set.
C9_Witness ==
    /\ ret.op = "set_mstatus" /\ ret.val < 2 ^ WidthOf(ret.name)
    /\ regs[name_to_addr.mstatus] # ret.before.regs[name_to_addr.mstatus]
    /\ regs[name_to_addr.mstatus] \ FieldBitsOf(ret.name) # {}

----------------------------------------------------------------------------
\* Properties of the CSR listeners (checked under SpecCSR).

\* The address the last set, get or set_listener was made on.
RetAddr == Resolve(ret.a).addr

\* set(A, v2) made one listener call: of the listener of A, with (v1, v2),
\* while A still read v1; and A reads v2 now.
NotifiedThenStored ==
    ret.op = "set" /\ ret.raised = "none" =>
        /\ calls = <<[slot |-> RetAddr, listener |-> listeners[RetAddr],
                      old |-> ret.before[RetAddr], new |-> ret.val,
                      seen |-> ret.before[RetAddr]]>>
        /\ get(Csr, IntArg(RetAddr)).value = ret.val

\* A listener slot changes only by set_listener on its address, to the
\* listener given.
ListenerReplaced ==
    \A a \in Addrs :
        listeners'[a] =
            IF ret'.op = "set_listener" /\ ret'.raised = "none"
               /\ a = Resolve(ret'.a).addr
            THEN ret'.listener
            ELSE listeners[a]

\* C10: set(A, v2) with current value v1 calls the listener of A exactly once
\* with (v1, v2) while get(A) is still v1, and get(A) is v2 afterwards; the
\* listener called is the one most recently installed on A, and no listener
\* of another address is called.
C10_ListenerOrder == []NotifiedThenStored /\ [][ListenerReplaced]_vars

\* C10 witness: a set that changed the value called listener L2 of its
\* address while another address had listener L1.
C10_Witness ==
    /\ ret.op = "set" /\ ret.raised = "none"
    /\ Len(calls) = 1 /\ calls[1].listener = "L2"
    /\ calls[1].old # calls[1].new
    /\ \E b \in Addrs \ {RetAddr} : listeners[b] = "L1"

----------------------------------------------------------------------------
\* Unknown CSR mnemonics (checked under SpecCSR).

\* C11: get, set and set_listener called with a mnemonic that is not in the
\* name table do not fail: get returns regs[0], set writes regs[0] and
\* set_listener installs the listener of address 0.
C11_UnknownNameIsAddressZero ==
    ret.op \in {"get", "set", "set_listener"}
        /\ ret.a.kind = "str" /\ ret.a.v \notin DOMAIN name_to_addr =>
            /\ ret.raised = "none"
            /\ ret.op = "get" => ret.value = regs[0]
            /\ ret.op = "set" => regs[0] = ret.val
            /\ ret.op = "set_listener" => listeners[0] = ret.listener

----------------------------------------------------------------------------
\* Properties of the image's sections (checked under Spec).

\* The summed lengths of the chunk objects ids on heap h.
RECURSIVE SumLen(_, _)
SumLen(ids, h) ==
    IF ids = <<>> THEN 0 ELSE Len(h[Head(ids)]) + SumLen(Tail(ids), h)

\* While the image is built, a byte section's size is the summed length of
\* its chunks and an instruction section's size the number of its
\* instructions.
SizeIsSum ==
    \A i \in 1..Len(exe.sections) :
        LET sec == exe.sections[i]
        IN  /\ sec.kind = "bytes" /\ loads = <<>> =>
                  sec.size = SumLen(sec.content, heap)
            /\ sec.kind = "insns" => sec.size = Len(sec.content)

\* One step: add(data) appends one chunk that holds data and grows size by
\* len(data), add_insn grows it by 1, and nothing else changes a size.
SizeStep ==
    \A i \in 1..Len(exe.sections) :
        LET old == exe.sections[i]
            new == exe'.sections[i]
        IN  IF ret'.op = "add" /\ ret'.sec = i
            THEN /\ new.size = old.size + Len(ret'.data)
                 /\ Len(new.content) = Len(old.content) + 1
                 /\ heap'[new.content[Len(new.content)]] = ret'.data
            ELSE IF ret'.op = "add_insn" /\ ret'.sec = i
            THEN /\ new.size = old.size + 1
                 /\ Len(new.content) = Len(old.content) + 1
            ELSE new.size = old.size /\ new.content = old.content

\* A section nothing was added to is loaded with content of length 0.
EmptyIsZeroLength ==
    \A k \in Loaded : \A i \in 1..Len(exe.sections) :
        exe.sections[i].content = <<>> =>
            Len(ContentOf(loads[k].le.sections_by_name[exe.sections[i].name],
                          heap)) = 0

\* C12: after any sequence of add calls a byte section's size is the sum of
\* the lengths of the chunks appended, after any sequence of add_insn calls
\* an instruction section's size is the number of instructions appended, size
\* never decreases, and continuous_content of a section nothing was added to
\* has length 0.
C12_SizeInvariant ==
    /\ [](SizeIsSum /\ EmptyIsZeroLength)
    /\ [][SizeStep]_vars

\* C12 witness: an image was loaded that has a byte section of two chunks of
\* different lengths and a section nothing was added to.
C12_Witness ==
    /\ Loaded # {}
    /\ \E i, j \in 1..Len(exe.sections) :
          /\ exe.sections[i].kind = "bytes"
          /\ Len(exe.sections[i].content) = 2
          /\ exe.sections[i].size = 3
          /\ exe.sections[j].content = <<>>

\* The summed sizes of the loaded sections S.
RECURSIVE SumSizes(_)
SumSizes(S) == IF S = <<>> THEN 0 ELSE Head(S).size + SumSizes(Tail(S))

\* C13: for every load, LoadedExecutable.size is the sum of the sizes of all
\* loaded sections (the stack included) plus the alignment padding between
\* them: the distance from base_addr to the aligned end of the last section
\* placed.
C13_SizeIsSectionsPlusPadding ==
    \A k \in Loaded :
        LET le == loads[k].le
            S == le.sections
            padding == le.size - SumSizes(S)
        IN  /\ padding \in 0..((ALIGN - 1) * Len(S))
            /\ S # <<>> =>
                  le.size = align_addr(S[Len(S)].base + S[Len(S)].size)
                                - le.base_addr

----------------------------------------------------------------------------
\* What mret restores (checked under SpecPriv).

\* The number the two mpp bits of the mstatus value ms hold.
MppOf(ms) == (IF 11 \in ms THEN 1 ELSE 0) + (IF 12 \in ms THEN 2 ELSE 0)

\* The last mret returned normally with mie = the previous mpie, the mode
\* the previous mpp names and pc = mepc, and changed no other mstatus bit and
\* no other CSR.
MretRestored ==
    LET old == ret.before.regs[name_to_addr.mstatus]
    IN  /\ ret.raised = "none"
        /\ (3 \in regs[name_to_addr.mstatus]) = (7 \in old)
        /\ mode = MppOf(old)
        /\ pc = Num(ret.before.regs[name_to_addr.mepc])
        /\ regs[name_to_addr.mstatus] \ {3} = old \ {3}
        /\ \A a \in Addrs \ {name_to_addr.mstatus} :
              regs[a] = ret.before.regs[a]

\* C15 as stated: every mret executed in MACHINE mode completes and restores
\* mie, the mode and pc, whatever mpp holds.
C15_MretRestoresAnyMpp ==
    ret.op = "mret" /\ ret.before.mode = PrivModes.MACHINE => MretRestored

\* C15 amended: mret executed in MACHINE mode while mstatus.mpp holds the
\* number of a privilege mode (0, 1 or 3) completes without a trap with
\* mie = the previous mpie, mode = the mode of the previous mpp and
\* pc = mepc; every other mstatus bit and every other CSR is unchanged.
C15_MretRestores ==
    ret.op = "mret" /\ ret.before.mode = PrivModes.MACHINE
        /\ MppOf(ret.before.regs[name_to_addr.mstatus]) \in PrivModeValues
            => MretRestored

\* C15 witness: an mret in MACHINE mode left machine mode, changed mie and
\* moved pc, with mstatus bits outside mie, mpie and mpp set.
C15_Witness ==
    /\ ret.op = "mret" /\ ret.raised = "none"
    /\ ret.before.mode = PrivModes.MACHINE /\ mode # PrivModes.MACHINE
    /\ (3 \in regs[name_to_addr.mstatus])
          # (3 \in ret.before.regs[name_to_addr.mstatus])
    /\ pc # ret.before.pc
    /\ regs[name_to_addr.mstatus] \ {3, 7, 11, 12} # {}

----------------------------------------------------------------------------
\* Aliasing between the image and its loads (checked under Spec and SpecMem).

\* C19: continuous_content of a byte section is repeatable and free of side
\* effects: every load of the image gets content of length size, and the
\* chunks the section stores are as they were appended (their lengths sum to
\* size) after any number of loads.
C19_ContentRepeatable ==
    \A i \in 1..Len(exe.sections) :
        LET sec == exe.sections[i]
        IN  sec.kind = "bytes" =>
                /\ \A k \in Loaded :
                      Len(ContentOf(loads[k].le.sections_by_name[sec.name],
                                    heap)) = sec.size
                /\ SumLen(sec.content, heap) = sec.size

\* C20: a loaded executable owns its section content: a successful write to
\* a byte section of one load changes neither the chunks the image stores nor
\* the content of the same-named section of another load of that image.
C20_LoadOwnsContent ==
    ret.op = "write" /\ ret.raised = "none"
        /\ RetSec.content.kind = "bytes" =>
            /\ \A i \in 1..Len(exe.sections) :
                  exe.sections[i].kind = "bytes" =>
                      \A n \in 1..Len(exe.sections[i].content) :
                          heap[exe.sections[i].content[n]]
                              = ret.before[exe.sections[i].content[n]]
            /\ \A k \in Loaded \ {ret.k} :
                  ContentOf(loads[k].le.sections_by_name[RetSec.name], heap)
                      = ContentOf(loads[k].le.sections_by_name[RetSec.name],
                                  ret.before)

----------------------------------------------------------------------------
\* Properties of the ELF sections (checked under SpecElf).

\* C14: add_sec of a section whose range [base, base+size) overlaps the range
\* of an accepted section ends in RuntimeError and adds it neither to
\* sections nor to sections_by_name; so the accepted sections are pairwise
\* disjoint.
C14_ElfSectionsDisjoint ==
    /\ ret.op = "add_sec"
          /\ (\E i \in 1..Len(ret.before.sections) :
                 Overlap(ret.before.sections[i], ret.sec)) =>
              /\ ret.raised = "RuntimeError"
              /\ elf = ret.before
    /\ \A i, j \in 1..Len(elf.sections) :
          i # j => ~Overlap(elf.sections[i], elf.sections[j])

\* C14 witness: with two sections accepted, a section that starts below the
\* second one and reaches into it, clear of the first, was rejected.
C14_Witness ==
    /\ ret.op = "add_sec" /\ ret.raised = "RuntimeError"
    /\ Len(elf.sections) = 2
    /\ ~Overlap(elf.sections[1], ret.sec)
    /\ Overlap(elf.sections[2], ret.sec)
    /\ ret.sec.base < elf.sections[2].base

----------------------------------------------------------------------------
\* Properties of csrrw, the branches and jal (checked under SpecInsn).

\* The register and immediate arguments of the instruction last executed.
RetReg(num) == get_reg(ret.ins, num)
RetImm(num) == get_imm(ret.ins, num, loads)

\* The last instruction wrote no integer register and no CSR.
NoRegisterWritten ==
    /\ cpu_regs = ret.before.cpu_regs
    /\ regs = ret.before.regs
    /\ calls = <<>>

\* C16 as stated: jal(rd, target) stores the current pc into rd and sets pc
\* to target - 4, for every prior pc.
C16_JalSetsTarget ==
    ret.op = "exec" /\ ret.ins.name = "jal" =>
        /\ ret.raised = "none"
        /\ cpu_regs = [ret.before.cpu_regs EXCEPT ![RetReg(0)] = ret.before.pc]
        /\ pc = RetImm(1) - 4

\* C16 amended: jal(rd, target) stores the current pc into rd and adds
\* target - 4 to pc: pc' = pc + target - 4.
C16_JalAddsTarget ==
    ret.op = "exec" /\ ret.ins.name = "jal" =>
        /\ ret.raised = "none"
        /\ cpu_regs = [ret.before.cpu_regs EXCEPT ![RetReg(0)] = ret.before.pc]
        /\ pc = ret.before.pc + RetImm(1) - 4

\* C16 witness: a jal to a symbol executed at a pc other than 0 replaced the
\* value of its destination register.
C16_Witness ==
    /\ ret.op = "exec" /\ ret.ins.name = "jal" /\ ret.raised = "none"
    /\ RetImm(1) # parse_numeric_argument("16")
    /\ ret.before.pc # 0
    /\ ret.before.cpu_regs[RetReg(0)] # ret.before.pc
    /\ cpu_regs[RetReg(0)] = ret.before.pc

\* C17: csrrw(rd, rs, csr) with rd other than zero completes with rd holding
\* the value the CSR had before and the CSR holding the value rs had before
\* (also when rd and rs are the same register); with rd = zero only the CSR
\* is written.
C17_CsrrwSwaps ==
    ret.op = "exec" /\ ret.ins.name = "csrrw" =>
        LET rd == RetReg(0)
            rs == RetReg(1)
            ind == RetImm(2)
        IN  /\ ret.raised = "none"
            /\ regs = [ret.before.regs EXCEPT
                          ![ind] = Bits(ret.before.cpu_regs[rs])]
            /\ cpu_regs = IF rd = "zero" THEN ret.before.cpu_regs
                          ELSE [ret.before.cpu_regs EXCEPT
                                   ![rd] = Num(ret.before.regs[ind])]
            /\ pc = ret.before.pc

\* The comparison of the branch named name on the register values a and b.
Holds(name, a, b) ==
    CASE name = "beq" -> a = b
      [] name = "bne" -> a # b
      [] name = "blt" -> a < b
      [] name = "bge" -> a >= b
      [] name = "bltu" -> ULess(to_unsigned(a), to_unsigned(b))
      [] name = "bgeu" -> ~ULess(to_unsigned(a), to_unsigned(b))

Branches == {"beq", "bne", "blt", "bge", "bltu", "bgeu"}

\* The last instruction was a branch whose comparison held.
RetTaken ==
    /\ ret.op = "exec" /\ ret.ins.name \in Branches
    /\ Holds(ret.ins.name,
             get_reg_content(ret.before.cpu_regs, ret.ins, 0),
             get_reg_content(ret.before.cpu_regs, ret.ins, 1))

\* C18: a taken beq, bne, bge, bltu or bgeu changes pc by imm - 4 and a
\* taken blt by imm, 4 past where the others land; a branch that is not taken
\* leaves pc unchanged; no branch writes a register or a CSR.
C18_Branches ==
    ret.op = "exec" /\ ret.ins.name \in Branches =>
        /\ ret.raised = "none"
        /\ pc = IF ~RetTaken THEN ret.before.pc
                ELSE IF ret.ins.name = "blt" THEN ret.before.pc + RetImm(2)
                ELSE ret.before.pc + RetImm(2) - 4
        /\ NoRegisterWritten

\* C18 witness: a blt was taken at a pc where another branch with the same
\* immediate had been taken before, so the two targets can be compared.
C18_Witness ==
    /\ RetTaken /\ ret.ins.name = "blt"
    /\ pc = ret.before.pc + RetImm(2)
    /\ RetImm(2) = parse_numeric_argument("8")
    /\ ret.before.pc > 0

----------------------------------------------------------------------------
\* Failed writes and accepted ELF sections (checked under SpecMem and
\* SpecElf).

\* C21: write is all-or-nothing: when write(offset, size, data) ends in an
\* error of any kind (read-only fault, out-of-bounds fault, or running past
\* the end of the content), no byte of any section content has been modified.
C21_FailedWriteChangesNothing ==
    ret.op = "write" /\ ret.raised # "none" => heap = ret.before

\* C22: add_sec accepts every new section whose address range is disjoint
\* from the ranges of all accepted sections, also when an accepted section
\* or the new one has size 0: it is appended to sections and registered in
\* sections_by_name.
C22_DisjointSectionAccepted ==
    ret.op = "add_sec"
        /\ (\A i \in 1..Len(ret.before.sections) :
               ~Overlap(ret.before.sections[i], ret.sec)) =>
            /\ ret.raised = "none"
            /\ elf.sections = Append(ret.before.sections, ret.sec)
            /\ ret.sec.name \in DOMAIN elf.sections_by_name
            /\ elf.sections_by_name[ret.sec.name] = ret.sec

====
